---- MODULE Spec2Model ----
(***************************************************************************)
(* Access-control and change-notification core of the collaborative notes  *)
(* backend: the note store, the permission check, the HTTP note handlers    *)
(* (noteCRUDController, noteShareController, noteArchiveController) and     *)
(* the socket handler userFinishedEditingNoteWithContent of server.ts.      *)
(* The archive sweep of archivingService reads the server clock `now`,      *)
(* which only the specification of the sweep lets advance.                  *)
(* Every handler runs to completion in one step; the events it emits are    *)
(* recorded, in emission order, in `events`, and its outcome in `last`.     *)
(***************************************************************************)
EXTENDS Integers, Sequences, FiniteSets, TLC

VARIABLES
    notes,      \* the Note collection: note id -> stored document
    allocated,  \* note ids the store has handed out (ObjectIds are never reused)
    events,     \* events emitted through io by the last handler run, in order
    last,       \* the last handler run: its inputs, response and branch taken
    now,        \* the server clock (new Date()), in days
    reqs        \* per user, the update request in flight between its awaits

vars == <<notes, allocated, events, last, now, reqs>>

----------------------------------------------------------------------------
(* Input domains *)

Users == {"u1", "u2", "u3"}
NoteIds == {"n1"}
\* users who create notes (users are interchangeable; sharees are drawn from Users)
Creators == {"u1"}
Titles == {"Plan", "Memo"}
Contents == {"v1", "v2"}

\* a title typed with a leading blank; the request schemas accept it as is
PaddedTitle == " Plan"
RequestTitles == Titles \cup {PaddedTitle}

\* the trim setter of Note.title: String.prototype.trim
trim(title) ==
    IF title = PaddedTitle THEN "Plan" ELSE title

\* bodies of PUT /:id: title and content are both optional
UpdateBodies ==
    {<<t, "undefined">> : t \in Titles}
        \cup {<<"undefined", c>> : c \in Contents}
        \cup {<<"undefined", "undefined">>}

\* null / undefined of the source
NoUser == "null"
Undefined == "undefined"

\* a Date field that is not set
NoDate == -1

\* config.archiveNotesAfterDays || 90
ARCHIVE_AFTER_DAYS == 90

\* the instants at which the clock is read: the start, a day later, the
\* retention window after the start, one and two days past it, and two
\* windows and two days after the start
Instants ==
    {0, 1, ARCHIVE_AFTER_DAYS, ARCHIVE_AFTER_DAYS + 1, ARCHIVE_AFTER_DAYS + 2,
     2 * ARCHIVE_AFTER_DAYS + 2}

\* the longest share list drawn for the permission-check specification
MaxShareLen == 2

\* User.email is unique: one address per registered user
emailOf == [u \in Users |-> u \o "@wavenet.io"]
UnknownEmail == "nobody@wavenet.io"
\* the address of u2 written with a capital; the request schema accepts it as is
MixedCaseEmail == "U2@wavenet.io"
Emails == {emailOf[u] : u \in Users} \cup {UnknownEmail, MixedCaseEmail}

\* the lowercase setter of the email paths: String.prototype.toLowerCase
toLowerCase(email) ==
    IF email = MixedCaseEmail THEN "u2@wavenet.io" ELSE email

\* UserModel.findOne({ email }): the filter value is cast through the schema,
\* lowercase setter included, before it is matched
findUserByEmail(email) ==
    IF \E u \in Users : emailOf[u] = toLowerCase(email)
    THEN CHOOSE u \in Users : emailOf[u] = toLowerCase(email)
    ELSE NoUser

\* userToShareWith.email
UserEmail(userId) ==
    IF userId \in Users THEN emailOf[userId] ELSE Undefined

\* role values the share request schema accepts, and the ones the Share schema stores
RequestRoles == {"read", "write"}
ShareRoles == {"read", "write", "owner"}

----------------------------------------------------------------------------
(* Documents *)

NoNote ==
    [exists |-> FALSE, title |-> "", content |-> "", creator |-> NoUser,
     sharedWith |-> <<>>, isArchived |-> FALSE, archivedAt |-> NoDate,
     updatedAt |-> NoDate]

\* Note.create({ title, content, creator, sharedWith: [], isArchived: false })
NewNote(title, content, creator) ==
    [exists |-> TRUE, title |-> title, content |-> content, creator |-> creator,
     sharedWith |-> <<>>, isArchived |-> FALSE, archivedAt |-> NoDate,
     updatedAt |-> now]

\* note.save(): only a modified document is written, and the timestamps
\* option stamps updatedAt on that write
Save(stored, note) ==
    IF note = stored THEN stored ELSE [note EXCEPT !.updatedAt = now]

NewShare(userId, email, role) ==
    [userId |-> userId, email |-> email, role |-> role]

\* an update handler between its awaits: the document it loaded, the values
\* it was asked to assign, and whether its save has succeeded
Idle ==
    [pc |-> "idle", op |-> "", actor |-> NoUser, note |-> "", doc |-> NoNote,
     title |-> Undefined,
     content |-> Undefined, auto |-> FALSE, persisted |-> FALSE]

Loaded(op, actor, n, doc, title, content, auto) ==
    [pc |-> "loaded", op |-> op, actor |-> actor, note |-> n, doc |-> doc,
     title |-> title, content |-> content, auto |-> auto, persisted |-> FALSE]

\* the handler has replied
Done(req, persisted) ==
    [Idle EXCEPT !.pc = "done", !.op = req.op, !.actor = req.actor,
                 !.note = req.note, !.persisted = persisted]

----------------------------------------------------------------------------
(* Events: io.to(userId), io.to(noteId) and io.emit *)

ToUser(u, name, tag) == [chan |-> "user", to |-> u, name |-> name, tag |-> tag]
ToRoom(n, name, tag) == [chan |-> "note", to |-> n, name |-> name, tag |-> tag]
Broadcast(name, tag) == [chan |-> "all", to |-> "*", name |-> name, tag |-> tag]
\* socket.emit: to the socket the request came from
ToSocket(u, name, tag) == [chan |-> "socket", to |-> u, name |-> name, tag |-> tag]

NoOp ==
    [op |-> "none", actor |-> NoUser, note |-> "", target |-> NoUser,
     role |-> "", auto |-> FALSE, status |-> "", info |-> ""]

Ran(op, actor, n, target, role, auto, status, info) ==
    [op |-> op, actor |-> actor, note |-> n, target |-> target,
     role |-> role, auto |-> auto, status |-> status, info |-> info]

----------------------------------------------------------------------------
(* noteUtils *)

\* an ObjectId, an id string or a populated user all yield the id string;
\* a missing (null) reference yields null
getUserIdStringFromField(field) ==
    IF field = NoUser THEN NoUser ELSE field

\* Array.prototype.findIndex over sharedWith, 1-based; 0 when there is no match
FindShareIndex(sharedWith, userId) ==
    LET hits == {i \in 1..Len(sharedWith) :
                    /\ getUserIdStringFromField(sharedWith[i].userId) # NoUser
                    /\ getUserIdStringFromField(sharedWith[i].userId) = userId}
    IN IF hits = {} THEN 0 ELSE CHOOSE i \in hits : \A j \in hits : i <= j

\* a user id that no User document carries (the account is gone)
GhostUser == "u0"

\* .populate("creator").populate("sharedWith.userId"): a reference with no
\* matching User document is populated as null
Populate(note) ==
    LET resolve(id) == IF id \in Users THEN id ELSE NoUser
    IN  [note EXCEPT !.creator = resolve(note.creator),
                     !.sharedWith = [i \in DOMAIN note.sharedWith |->
                         [note.sharedWith[i] EXCEPT
                             !.userId = resolve(note.sharedWith[i].userId)]]]

\* mutant: an unresolved creator is not a reason to deny; the share list decides
checkPermissions_skipCreatorCheck(note, authenticatedUserId, requiredRole) ==
    LET noteCreatorIdString == getUserIdStringFromField(note.creator)
        idx == FindShareIndex(note.sharedWith, authenticatedUserId)
    IN  IF noteCreatorIdString = authenticatedUserId THEN TRUE
        ELSE IF requiredRole = "owner" THEN FALSE
        ELSE IF idx = 0 THEN FALSE
        ELSE IF requiredRole = "read" THEN TRUE
        ELSE note.sharedWith[idx].role \in {"write", "owner"}

\* mutant: any share entry satisfies the write level
checkPermissions_anySharee(note, authenticatedUserId, requiredRole) ==
    LET noteCreatorIdString == getUserIdStringFromField(note.creator)
        idx == FindShareIndex(note.sharedWith, authenticatedUserId)
    IN  IF noteCreatorIdString = NoUser THEN FALSE
        ELSE IF noteCreatorIdString = authenticatedUserId THEN TRUE
        ELSE IF requiredRole = "owner" THEN FALSE
        ELSE idx # 0

\* mutant: a share entry with role owner satisfies the owner level
checkPermissions_ownerShare(note, authenticatedUserId, requiredRole) ==
    LET noteCreatorIdString == getUserIdStringFromField(note.creator)
        idx == FindShareIndex(note.sharedWith, authenticatedUserId)
    IN  IF noteCreatorIdString = NoUser THEN FALSE
        ELSE IF noteCreatorIdString = authenticatedUserId THEN TRUE
        ELSE IF idx = 0 THEN FALSE
        ELSE IF requiredRole = "owner" THEN note.sharedWith[idx].role = "owner"
        ELSE IF requiredRole = "read" THEN TRUE
        ELSE note.sharedWith[idx].role \in {"write", "owner"}

\* mutant: the share list is consulted before the creator test
checkPermissions_shareFirst(note, authenticatedUserId, requiredRole) ==
    LET noteCreatorIdString == getUserIdStringFromField(note.creator)
        idx == FindShareIndex(note.sharedWith, authenticatedUserId)
    IN  IF noteCreatorIdString = NoUser THEN FALSE
        ELSE IF idx # 0
        THEN /\ requiredRole # "owner"
             /\ (requiredRole = "read"
                    \/ note.sharedWith[idx].role \in {"write", "owner"})
        ELSE noteCreatorIdString = authenticatedUserId

checkPermissions(note, authenticatedUserId, requiredRole) ==
    LET noteCreatorIdString == getUserIdStringFromField(note.creator)
        idx == FindShareIndex(note.sharedWith, authenticatedUserId)
    IN  IF noteCreatorIdString = NoUser THEN FALSE
        ELSE IF noteCreatorIdString = authenticatedUserId THEN TRUE
        ELSE IF requiredRole = "owner" THEN FALSE
        ELSE IF idx = 0 THEN FALSE
        ELSE IF /\ requiredRole = "read"
                /\ note.sharedWith[idx].role \in {"read", "write", "owner"}
             THEN TRUE
        ELSE IF /\ requiredRole = "write"
                /\ note.sharedWith[idx].role \in {"write", "owner"}
             THEN TRUE
        ELSE FALSE

----------------------------------------------------------------------------
(* Helpers of the handlers *)

RECURSIVE Dedupe(_)
\* [...new Set(ids)]: first occurrences, in insertion order
Dedupe(ids) ==
    IF ids = <<>> THEN <<>>
    ELSE LET front == Dedupe(SubSeq(ids, 1, Len(ids) - 1))
             x == ids[Len(ids)]
         IN IF \E i \in 1..Len(front) : front[i] = x THEN front
            ELSE Append(front, x)

RECURSIVE SharedIdsExcept(_, _)
\* sharedWith.forEach: the ids of the share entries that are not the editor
SharedIdsExcept(sharedWith, editorId) ==
    IF sharedWith = <<>> THEN <<>>
    ELSE LET rest == SharedIdsExcept(Tail(sharedWith), editorId)
             uid == Head(sharedWith).userId
         IN IF uid # NoUser /\ uid # editorId THEN <<uid>> \o rest ELSE rest

\* mutant: the collected ids are not de-duplicated
CollaboratorsToNotify_noDedupe(note, editorId) ==
    (IF note.creator # NoUser /\ note.creator # editorId
     THEN <<note.creator>> ELSE <<>>)
        \o SharedIdsExcept(note.sharedWith, editorId)

\* collaboratorsToNotify, then uniqueCollaboratorIds
CollaboratorsToNotify(note, editorId) ==
    Dedupe((IF note.creator # NoUser /\ note.creator # editorId
            THEN <<note.creator>> ELSE <<>>)
           \o SharedIdsExcept(note.sharedWith, editorId))

\* uniqueCollaboratorIds.forEach(id => io.to(id).emit("notifyNoteUpdatedByOther", ...))
NotifyUpdatedByOther(ids) ==
    [i \in 1..Len(ids) |-> ToUser(ids[i], "notifyNoteUpdatedByOther", "info")]

----------------------------------------------------------------------------
Init ==
    /\ now = 0
    /\ reqs = [u \in Users |-> Idle]
    /\ notes = [n \in NoteIds |-> NoNote]
    /\ allocated = {}
    /\ events = <<>>
    /\ last = NoOp

----------------------------------------------------------------------------
(* noteCRUDController *)

\* mutant: the filter has no isArchived clause
existingNote_withArchived(title, userId) ==
    \E m \in DOMAIN notes : /\ notes[m].exists
                            /\ notes[m].title = trim(title)
                            /\ notes[m].creator = userId

\* Note.findOne({ title, creator: userId, isArchived: false }); the filter
\* value is cast through the schema, trim setter included
existingNote(title, userId) ==
    \E m \in DOMAIN notes : /\ notes[m].exists
                            /\ notes[m].title = trim(title)
                            /\ notes[m].creator = userId
                            /\ ~notes[m].isArchived

CreateNote(u, n, title, content) ==
    /\ n \notin allocated
    /\ UNCHANGED <<now, reqs>>
    /\ IF existingNote(title, u)
       THEN /\ UNCHANGED <<notes, allocated>>
            /\ events' = <<>>
            /\ last' = Ran("createNote", u, n, NoUser, "", FALSE, "Conflict", title)
       ELSE /\ notes' = [notes EXCEPT ![n] = NewNote(trim(title), content, u)]
            /\ allocated' = allocated \cup {n}
            /\ events' = <<Broadcast("notesListUpdated", "create")>>
            /\ last' = Ran("createNote", u, n, NoUser, "", FALSE, "Created", title)

GetNoteById(u, n) ==
    /\ UNCHANGED <<notes, allocated, now, reqs>>
    /\ events' = <<>>
    /\ last' = Ran("getNoteById", u, n, NoUser, "", FALSE,
                   IF ~notes[n].exists THEN "NotFound"
                   ELSE IF ~checkPermissions(Populate(notes[n]), u, "read")
                        THEN "PermissionDenied"
                   ELSE "OK", "")

\* checkPermissions(note, userId, "write") of updateNote
UpdateRequiredRole == "write"

UpdateNote(u, n, title, content, isAutoSave) ==
    LET note == notes[n]
        updatedNote == [note EXCEPT
                          !.title = IF title # Undefined THEN trim(title) ELSE @,
                          !.content = IF content # Undefined THEN content ELSE @]
    IN  /\ UNCHANGED <<allocated, now, reqs>>
        /\ IF ~note.exists
           THEN /\ UNCHANGED notes
                /\ events' = <<>>
                /\ last' = Ran("updateNote", u, n, NoUser, "", isAutoSave, "NotFound", "")
           ELSE IF ~checkPermissions(note, u, UpdateRequiredRole)
           THEN /\ UNCHANGED notes
                /\ events' = <<>>
                /\ last' = Ran("updateNote", u, n, NoUser, "", isAutoSave,
                               "PermissionDenied", "")
           ELSE /\ notes' = [notes EXCEPT ![n] = Save(note, updatedNote)]
                /\ events' =
                      <<ToRoom(n, "notesListUpdated", "update"),
                        ToUser(u, "noteUpdateSuccess", "")>>
                      \o (IF ~isAutoSave
                          THEN NotifyUpdatedByOther(CollaboratorsToNotify(updatedNote, u))
                          ELSE <<>>)
                /\ last' = Ran("updateNote", u, n, NoUser, "", isAutoSave, "OK", "")

\* mutant: deleteNote asks for the write level
DeleteRequiredRole_write == "write"

\* checkPermissions(note, authenticatedUserId, "owner") of deleteNote
DeleteRequiredRole == "owner"

DeleteNote(u, n) ==
    LET note == notes[n]
    IN  /\ UNCHANGED <<allocated, now, reqs>>
        /\ IF ~note.exists
           THEN /\ UNCHANGED notes
                /\ events' = <<>>
                /\ last' = Ran("deleteNote", u, n, NoUser, "", FALSE, "NotFound", "")
           ELSE IF ~checkPermissions(Populate(note), u, DeleteRequiredRole)
           THEN /\ UNCHANGED notes
                /\ events' = <<>>
                /\ last' = Ran("deleteNote", u, n, NoUser, "", FALSE,
                               "PermissionDenied", "")
           ELSE /\ notes' = [notes EXCEPT ![n] = NoNote]
                /\ events' = <<ToRoom(n, "noteDeleted", ""),
                               Broadcast("notesListUpdated", "delete")>>
                /\ last' = Ran("deleteNote", u, n, NoUser, "", FALSE, "OK", "")

----------------------------------------------------------------------------
(* server.ts: socket.on("userFinishedEditingNoteWithContent") *)

\* data.editorId names the editor; the handler asks for no permission
UserFinishedEditingNoteWithContent(editorId, n, title, content) ==
    LET note == notes[n]
        contentChanged == note.content # content
        titleChanged == note.title # title
        savedNote == [note EXCEPT !.title = title, !.content = content]
    IN  /\ UNCHANGED <<allocated, now, reqs>>
        /\ IF ~note.exists
           THEN /\ UNCHANGED notes
                /\ events' = <<>>
                /\ last' = Ran("userFinishedEditingNoteWithContent", editorId, n,
                               NoUser, "", FALSE, "NotFound", "")
           ELSE IF titleChanged \/ contentChanged
           THEN /\ notes' = [notes EXCEPT ![n] = Save(note, savedNote)]
                /\ events' = NotifyUpdatedByOther(CollaboratorsToNotify(note, editorId))
                /\ last' = Ran("userFinishedEditingNoteWithContent", editorId, n,
                               NoUser, "", FALSE, "OK", "")
           ELSE /\ UNCHANGED notes
                /\ events' = <<>>
                /\ last' = Ran("userFinishedEditingNoteWithContent", editorId, n,
                               NoUser, "", FALSE, "NoChange", "")

----------------------------------------------------------------------------
(* noteShareController *)

\* mutant: shareNote asks for the read level
ShareRequiredRole_read == "read"

\* checkPermissions(note, authenticatedUserId, "write") of shareNote
ShareRequiredRole == "write"

\* mutant: the share is pushed without looking for an existing entry
UpsertShare_alwaysPush(sharedWith, userId, email, role) ==
    Append(sharedWith, NewShare(userId, email, role))

\* mutant: the role of an existing entry is left as it is
UpsertShare_keepRole(sharedWith, userId, email, role) ==
    IF FindShareIndex(sharedWith, userId) > 0 THEN sharedWith
    ELSE Append(sharedWith, NewShare(userId, email, role))

\* existingShareIndex > -1 ? replace the role : push a new share
UpsertShare(sharedWith, userId, email, role) ==
    LET existingShareIndex == FindShareIndex(sharedWith, userId)
    IN  IF existingShareIndex > 0
        THEN [sharedWith EXCEPT ![existingShareIndex].role = role]
        ELSE Append(sharedWith, NewShare(userId, email, role))

ShareNote(u, n, email, role) ==
    LET note == notes[n]
        userToShareWith == findUserByEmail(email)
        existing == FindShareIndex(note.sharedWith, userToShareWith) > 0
    IN  /\ UNCHANGED <<allocated, now, reqs>>
        /\ IF ~note.exists
           THEN /\ UNCHANGED notes
                /\ events' = <<>>
                /\ last' = Ran("shareNote", u, n, userToShareWith, role, FALSE,
                               "NotFound", "note")
           ELSE IF ~checkPermissions(Populate(note), u, ShareRequiredRole)
           THEN /\ UNCHANGED notes
                /\ events' = <<>>
                /\ last' = Ran("shareNote", u, n, userToShareWith, role, FALSE,
                               "PermissionDenied", "")
           ELSE IF email = emailOf[u]
           THEN /\ UNCHANGED notes
                /\ events' = <<>>
                /\ last' = Ran("shareNote", u, n, userToShareWith, role, FALSE,
                               "InvalidState", "self")
           ELSE IF userToShareWith = NoUser
           THEN /\ UNCHANGED notes
                /\ events' = <<>>
                /\ last' = Ran("shareNote", u, n, userToShareWith, role, FALSE,
                               "NotFound", "user")
           ELSE /\ notes' = [notes EXCEPT ![n] =
                                Save(note, [note EXCEPT !.sharedWith =
                                    UpsertShare(@, userToShareWith,
                                                UserEmail(userToShareWith), role)])]
                /\ events' = <<ToRoom(n, "noteUpdated", ""),
                               ToRoom(n, "noteShared", ""),
                               Broadcast("notesListUpdated", "share"),
                               ToUser(userToShareWith, "notification", "note_shared")>>
                /\ last' = Ran("shareNote", u, n, userToShareWith, role, FALSE, "OK",
                               IF existing THEN "roleUpdated" ELSE "added")

\* mutant: write permission is enough to unshare others
CanUnshare_writeFallback(note, authenticatedUserId, userIdToUnshare) ==
    \/ getUserIdStringFromField(note.creator) = authenticatedUserId
    \/ userIdToUnshare = authenticatedUserId
    \/ checkPermissions(note, authenticatedUserId, "write")

\* canUnshare: the note owner, or the user removing themselves
CanUnshare(note, authenticatedUserId, userIdToUnshare) ==
    \/ getUserIdStringFromField(note.creator) = authenticatedUserId
    \/ userIdToUnshare = authenticatedUserId

\* mutant: the splice drops the entry and everything after it
RemoveAt_truncate(sharedWith, shareIndex) ==
    SubSeq(sharedWith, 1, shareIndex - 1)

\* sharedWith.splice(shareIndex, 1)
RemoveAt(sharedWith, shareIndex) ==
    SubSeq(sharedWith, 1, shareIndex - 1)
        \o SubSeq(sharedWith, shareIndex + 1, Len(sharedWith))

UnshareNote(u, n, userIdToUnshare) ==
    LET note == notes[n]
        shareIndex == FindShareIndex(note.sharedWith, userIdToUnshare)
    IN  /\ UNCHANGED <<allocated, now, reqs>>
        /\ IF ~note.exists
           THEN /\ UNCHANGED notes
                /\ events' = <<>>
                /\ last' = Ran("unshareNote", u, n, userIdToUnshare, "", FALSE,
                               "NotFound", "note")
           ELSE IF ~CanUnshare(Populate(note), u, userIdToUnshare)
           THEN /\ UNCHANGED notes
                /\ events' = <<>>
                /\ last' = Ran("unshareNote", u, n, userIdToUnshare, "", FALSE,
                               "PermissionDenied", "")
           ELSE IF shareIndex = 0
           THEN /\ UNCHANGED notes
                /\ events' = <<>>
                /\ last' = Ran("unshareNote", u, n, userIdToUnshare, "", FALSE,
                               "NotFound", "share")
           ELSE /\ notes' = [notes EXCEPT ![n] =
                                Save(note, [note EXCEPT !.sharedWith =
                                                RemoveAt(@, shareIndex)])]
                /\ events' = <<ToRoom(n, "noteUpdated", ""),
                               ToRoom(n, "noteUnshared", ""),
                               Broadcast("notesListUpdated", "unshare"),
                               ToUser(userIdToUnshare, "notification", "note_unshared")>>
                /\ last' = Ran("unshareNote", u, n, userIdToUnshare, "", FALSE, "OK", "")

----------------------------------------------------------------------------
(* noteArchiveController *)

\* mutant: archiveNote / unarchiveNote ask for the read level
ArchiveRequiredRole_read == "read"

\* checkPermissions(note, authenticatedUserId, "write") of archiveNote / unarchiveNote
ArchiveRequiredRole == "write"

\* mutant: the creator's archive leaves the share list as it is
archived_keepsShares(note, u) == [note EXCEPT !.isArchived = TRUE]

\* mutant: the archiving user becomes the creator of the note
archived_takesOver(note, u) ==
    LET cleared == IF note.creator # NoUser /\ note.creator = u
                   THEN [note EXCEPT !.sharedWith = <<>>] ELSE note
    IN  [cleared EXCEPT !.isArchived = TRUE, !.creator = u]

\* the document archiveNote saves: the creator's archive also clears the
\* share list; archivedAt is not assigned
archived(note, u) ==
    LET cleared == IF note.creator # NoUser /\ note.creator = u
                   THEN [note EXCEPT !.sharedWith = <<>>] ELSE note
    IN  [cleared EXCEPT !.isArchived = TRUE]

\* the document unarchiveNote saves: archivedAt is not assigned
unarchived(note) == [note EXCEPT !.isArchived = FALSE]

\* mutant: archiveNote does not look at isArchived
AlreadyArchived_never(note) == FALSE

\* if (note.isArchived) of archiveNote: 400 "Note is already archived"
AlreadyArchived(note) == note.isArchived

ArchiveNote(u, n) ==
    LET note == notes[n]
    IN  /\ UNCHANGED <<allocated, now, reqs>>
        /\ IF ~note.exists
           THEN /\ UNCHANGED notes
                /\ events' = <<>>
                /\ last' = Ran("archiveNote", u, n, NoUser, "", FALSE, "NotFound", "")
           ELSE IF ~checkPermissions(Populate(note), u, ArchiveRequiredRole)
           THEN /\ UNCHANGED notes
                /\ events' = <<>>
                /\ last' = Ran("archiveNote", u, n, NoUser, "", FALSE,
                               "PermissionDenied", "")
           ELSE IF AlreadyArchived(note)
           THEN /\ UNCHANGED notes
                /\ events' = <<>>
                /\ last' = Ran("archiveNote", u, n, NoUser, "", FALSE,
                               "InvalidState", "")
           ELSE /\ notes' = [notes EXCEPT ![n] = Save(note, archived(note, u))]
                /\ events' = <<ToRoom(n, "noteUpdated", ""),
                               Broadcast("notesListUpdated", "archive")>>
                /\ last' = Ran("archiveNote", u, n, NoUser, "", FALSE, "OK", "")

UnarchiveNote(u, n) ==
    LET note == notes[n]
    IN  /\ UNCHANGED <<allocated, now, reqs>>
        /\ IF ~note.exists
           THEN /\ UNCHANGED notes
                /\ events' = <<>>
                /\ last' = Ran("unarchiveNote", u, n, NoUser, "", FALSE, "NotFound", "")
           ELSE IF ~checkPermissions(Populate(note), u, ArchiveRequiredRole)
           THEN /\ UNCHANGED notes
                /\ events' = <<>>
                /\ last' = Ran("unarchiveNote", u, n, NoUser, "", FALSE,
                               "PermissionDenied", "")
           ELSE IF ~note.isArchived
           THEN /\ UNCHANGED notes
                /\ events' = <<>>
                /\ last' = Ran("unarchiveNote", u, n, NoUser, "", FALSE,
                               "InvalidState", "")
           ELSE /\ notes' = [notes EXCEPT ![n] = Save(note, unarchived(note))]
                /\ events' = <<ToRoom(n, "noteUpdated", ""),
                               Broadcast("notesListUpdated", "unarchive")>>
                /\ last' = Ran("unarchiveNote", u, n, NoUser, "", FALSE, "OK", "")

----------------------------------------------------------------------------
Next ==
    \/ \E u \in Creators, n \in NoteIds, t \in Titles, c \in Contents :
          CreateNote(u, n, t, c)
    \/ \E u \in Users, n \in NoteIds : GetNoteById(u, n)
    \/ \E u \in Users, n \in NoteIds, b \in UpdateBodies, a \in BOOLEAN :
          UpdateNote(u, n, b[1], b[2], a)
    \/ \E u \in Users, n \in NoteIds : DeleteNote(u, n)
    \/ \E u \in Users, n \in NoteIds, t \in Titles, c \in Contents :
          UserFinishedEditingNoteWithContent(u, n, t, c)
    \/ \E u \in Users, n \in NoteIds, e \in Emails, r \in RequestRoles :
          ShareNote(u, n, e, r)
    \/ \E u \in Users, n \in NoteIds, t \in Users : UnshareNote(u, n, t)
    \/ \E u \in Users, n \in NoteIds : ArchiveNote(u, n)
    \/ \E u \in Users, n \in NoteIds : UnarchiveNote(u, n)

Spec == Init /\ [][Next]_vars

----------------------------------------------------------------------------
(* The permission check on arbitrary stored documents: share lists as the   *)
(* Share schema admits them (any of the three roles, repeated users, an     *)
(* entry naming the creator), gated by the read, write and owner handlers.  *)

ShareEntries == {NewShare(u, emailOf[u], r) : u \in Users, r \in ShareRoles}
ShareLists == UNION {[1..k -> ShareEntries] : k \in 0..MaxShareLen}
StoredNotes ==
    {[NewNote("Plan", "v1", c) EXCEPT !.sharedWith = sl] :
        c \in Users, sl \in ShareLists}

InitPerm ==
    /\ now = 0
    /\ reqs = [u \in Users |-> Idle]
    /\ notes \in [NoteIds -> StoredNotes]
    /\ allocated = NoteIds
    /\ events = <<>>
    /\ last = NoOp

NextPerm ==
    \/ \E u \in Users, n \in NoteIds : GetNoteById(u, n)
    \/ \E u \in Users, n \in NoteIds : UpdateNote(u, n, "Memo", Undefined, FALSE)
    \/ \E u \in Users, n \in NoteIds : DeleteNote(u, n)

SpecPerm == InitPerm /\ [][NextPerm]_vars

----------------------------------------------------------------------------
(* checkPermissions on notes whose creator may name an account that no      *)
(* longer exists, gated by the same read, write and owner handlers.         *)

DanglingNotes ==
    {[NewNote("Plan", "v1", c) EXCEPT !.sharedWith = sl] :
        c \in {"u1", GhostUser}, sl \in ShareLists}

InitDangling ==
    /\ now = 0
    /\ reqs = [u \in Users |-> Idle]
    /\ notes \in [NoteIds -> DanglingNotes]
    /\ allocated = NoteIds
    /\ events = <<>>
    /\ last = NoOp

NextDangling == NextPerm

SpecDangling == InitDangling /\ [][NextDangling]_vars

----------------------------------------------------------------------------
(* archivingService: the clock and the archive sweep *)

\* mutant: a note exactly the retention window old is stale too
IsStale_inclusive(note) ==
    /\ note.exists
    /\ ~note.isArchived
    /\ note.updatedAt <= now - ARCHIVE_AFTER_DAYS

\* mutant: the filter does not look at isArchived
IsStale_ignoresArchived(note) ==
    /\ note.exists
    /\ note.updatedAt < now - ARCHIVE_AFTER_DAYS

\* the filter of updateMany: { isArchived: false, updatedAt: { $lt: thresholdDate } }
IsStale(note) ==
    /\ note.exists
    /\ ~note.isArchived
    /\ note.updatedAt < now - ARCHIVE_AFTER_DAYS

\* Note.updateMany(filter, { $set: { isArchived: true, archivedAt: new Date() } });
\* the timestamps option adds updatedAt to the $set
ArchiveOldNotes ==
    /\ notes' = [n \in DOMAIN notes |->
                    IF IsStale(notes[n])
                    THEN [notes[n] EXCEPT !.isArchived = TRUE,
                                          !.archivedAt = now,
                                          !.updatedAt = now]
                    ELSE notes[n]]
    /\ events' = <<>>
    /\ last' = Ran("archiveOldNotes", NoUser, "", NoUser, "", FALSE, "OK", "")
    /\ UNCHANGED <<allocated, now, reqs>>

\* time passes: the clock moves on to a later instant
Tick ==
    /\ \E t \in Instants : t > now /\ now' = t
    /\ UNCHANGED <<notes, allocated, events, last, reqs>>

\* two notes of one creator, each unshared or shared with a writer, both
\* created at the start; the sweep and the clock run next to the handlers
\* that write isArchived or updatedAt
SweepNoteIds == {"n1", "n2"}
SweepUsers == {"u1", "u2"}

InitSweep ==
    /\ now = 0
    /\ reqs = [u \in Users |-> Idle]
    /\ \E sl \in [SweepNoteIds ->
                    {<<>>, <<NewShare("u2", emailOf["u2"], "write")>>}] :
          notes = [n \in SweepNoteIds |->
                     [NewNote(IF n = "n1" THEN "Plan" ELSE "Memo", "v1", "u1")
                        EXCEPT !.sharedWith = sl[n]]]
    /\ allocated = SweepNoteIds
    /\ events = <<>>
    /\ last = NoOp

NextSweep ==
    \/ Tick
    \/ ArchiveOldNotes
    \/ \E u \in SweepUsers, n \in SweepNoteIds, c \in Contents :
          UpdateNote(u, n, Undefined, c, TRUE)
    \/ \E u \in SweepUsers, n \in SweepNoteIds : ArchiveNote(u, n)
    \/ \E u \in SweepUsers, n \in SweepNoteIds : UnarchiveNote(u, n)

SpecSweep == InitSweep /\ [][NextSweep]_vars

----------------------------------------------------------------------------
(* Manual archive immediately followed by manual unarchive, by one actor,  *)
(* on stored notes that are not archived.                                   *)

RoundTripNotes ==
    {note \in StoredNotes :
        /\ \A i, j \in 1..Len(note.sharedWith) :
              note.sharedWith[i].userId = note.sharedWith[j].userId => i = j
        /\ \A i \in 1..Len(note.sharedWith) :
              /\ note.sharedWith[i].userId # note.creator
              /\ note.sharedWith[i].role \in RequestRoles}

InitRoundTrip ==
    /\ now = 0
    /\ reqs = [u \in Users |-> Idle]
    /\ notes \in [NoteIds -> RoundTripNotes]
    /\ allocated = NoteIds
    /\ events = <<>>
    /\ last = NoOp

\* archiveNote, then unarchiveNote on the document it saved
ArchiveThenUnarchive(u, n) ==
    LET note == notes[n]
        afterArchive == Save(note, archived(note, u))
        afterUnarchive == Save(afterArchive, unarchived(afterArchive))
    IN  /\ UNCHANGED <<allocated, now, reqs>>
        /\ IF ~checkPermissions(Populate(note), u, ArchiveRequiredRole)
           THEN /\ UNCHANGED notes
                /\ events' = <<>>
                /\ last' = Ran("archiveThenUnarchive", u, n, NoUser, "", FALSE,
                               "PermissionDenied", "archive")
           ELSE IF ~checkPermissions(Populate(afterArchive), u, ArchiveRequiredRole)
           THEN /\ notes' = [notes EXCEPT ![n] = afterArchive]
                /\ events' = <<>>
                /\ last' = Ran("archiveThenUnarchive", u, n, NoUser, "", FALSE,
                               "PermissionDenied", "unarchive")
           ELSE /\ notes' = [notes EXCEPT ![n] = afterUnarchive]
                /\ events' = <<ToRoom(n, "noteUpdated", ""),
                               Broadcast("notesListUpdated", "unarchive")>>
                /\ last' = Ran("archiveThenUnarchive", u, n, NoUser, "", FALSE,
                               "OK", "")

NextRoundTrip == \E u \in Users, n \in NoteIds : ArchiveThenUnarchive(u, n)

SpecRoundTrip == InitRoundTrip /\ [][NextRoundTrip]_vars

----------------------------------------------------------------------------
(* The listings.  Each is a find() with a filter; sort, skip and limit only *)
(* pick a page out of the notes the filter matches, so a listing is        *)
(* modelled by the set of ids that match.                                   *)

\* the "sharedWith.userId": userId clause of a filter
IsSharee(note, userId) ==
    \E i \in 1..Len(note.sharedWith) : note.sharedWith[i].userId = userId

\* Note.find({ creator: userId, isArchived: false })
getMyNotes(userId) ==
    {n \in DOMAIN notes :
        /\ notes[n].exists
        /\ notes[n].creator = userId
        /\ ~notes[n].isArchived}

\* Note.find({ "sharedWith.userId": userId, isArchived: false })
getSharedWithMeNotes(userId) ==
    {n \in DOMAIN notes :
        /\ notes[n].exists
        /\ IsSharee(notes[n], userId)
        /\ ~notes[n].isArchived}

\* mutant: the filter has no isArchived clause
getAllUserNotes_withArchived(userId) ==
    {n \in DOMAIN notes :
        /\ notes[n].exists
        /\ \/ notes[n].creator = userId
           \/ IsSharee(notes[n], userId)}

\* Note.find({ $or: [{ creator }, { "sharedWith.userId" }], isArchived: false })
getAllUserNotes(userId) ==
    {n \in DOMAIN notes :
        /\ notes[n].exists
        /\ \/ notes[n].creator = userId
           \/ IsSharee(notes[n], userId)
        /\ ~notes[n].isArchived}

\* Note.find({ creator: userId, isArchived: true })
getArchivedNotes(userId) ==
    {n \in DOMAIN notes :
        /\ notes[n].exists
        /\ notes[n].creator = userId
        /\ notes[n].isArchived}

\* a listing request: the reply carries the notes found, nothing is written
Listing(op, u, found) ==
    /\ UNCHANGED <<notes, allocated, now, reqs>>
    /\ events' = <<>>
    /\ last' = Ran(op, u, "", NoUser, "", FALSE, "OK", found)

GetMyNotes(u) == Listing("getMyNotes", u, getMyNotes(u))

GetSharedWithMeNotes(u) ==
    Listing("getSharedWithMeNotes", u, getSharedWithMeNotes(u))

GetAllUserNotes(u) == Listing("getAllUserNotes", u, getAllUserNotes(u))

GetArchivedNotes(u) == Listing("getArchivedNotes", u, getArchivedNotes(u))

\* the share lists of the two notes listed: none, a writer, a reader, both
ListingShares(creator) ==
    LET other == IF creator = "u1" THEN "u2" ELSE "u1"
    IN  {<<>>,
         <<NewShare(other, emailOf[other], "write")>>,
         <<NewShare("u3", emailOf["u3"], "read")>>,
         <<NewShare(other, emailOf[other], "write"),
           NewShare("u3", emailOf["u3"], "read")>>}

ListingNotesOf(creator) ==
    {[NewNote("Plan", "v1", creator) EXCEPT !.sharedWith = sl] :
        sl \in ListingShares(creator)}

ListingCreator == [n \in SweepNoteIds |-> IF n = "n1" THEN "u1" ELSE "u2"]

InitListing ==
    /\ now = 0
    /\ reqs = [u \in Users |-> Idle]
    /\ notes \in [SweepNoteIds -> UNION {ListingNotesOf(c) : c \in SweepUsers}]
    /\ \A n \in SweepNoteIds : notes[n].creator = ListingCreator[n]
    /\ allocated = SweepNoteIds
    /\ events = <<>>
    /\ last = NoOp

NextListing ==
    \/ \E u \in Users : GetMyNotes(u)
    \/ \E u \in Users : GetSharedWithMeNotes(u)
    \/ \E u \in Users : GetAllUserNotes(u)
    \/ \E u \in Users : GetArchivedNotes(u)
    \/ \E u \in Users, n \in SweepNoteIds : ArchiveNote(u, n)
    \/ \E u \in Users, n \in SweepNoteIds : UnarchiveNote(u, n)

SpecListing == InitListing /\ [][NextListing]_vars

----------------------------------------------------------------------------
(* The same share request made twice in succession on a stored note.        *)

\* shareNote, then shareNote again with the same email and role; the second
\* call loads the note the first one saved
ShareNoteTwice(u, n, email, role) ==
    LET note == notes[n]
        userToShareWith == findUserByEmail(email)
        afterFirst == Save(note, [note EXCEPT !.sharedWith =
                          UpsertShare(@, userToShareWith,
                                      UserEmail(userToShareWith), role)])
        secondAllowed == checkPermissions(Populate(afterFirst), u, ShareRequiredRole)
        afterSecond == IF secondAllowed
                       THEN Save(afterFirst, [afterFirst EXCEPT !.sharedWith =
                                UpsertShare(@, userToShareWith,
                                            UserEmail(userToShareWith), role)])
                       ELSE afterFirst
    IN  /\ UNCHANGED <<allocated, now, reqs>>
        /\ IF ~checkPermissions(Populate(note), u, ShareRequiredRole)
           THEN /\ UNCHANGED notes
                /\ events' = <<>>
                /\ last' = Ran("shareNoteTwice", u, n, userToShareWith, role, FALSE,
                               "PermissionDenied", "")
           ELSE IF email = emailOf[u]
           THEN /\ UNCHANGED notes
                /\ events' = <<>>
                /\ last' = Ran("shareNoteTwice", u, n, userToShareWith, role, FALSE,
                               "InvalidState", "self")
           ELSE IF userToShareWith = NoUser
           THEN /\ UNCHANGED notes
                /\ events' = <<>>
                /\ last' = Ran("shareNoteTwice", u, n, userToShareWith, role, FALSE,
                               "NotFound", "user")
           ELSE /\ notes' = [notes EXCEPT ![n] = afterSecond]
                /\ events' = IF secondAllowed
                             THEN <<ToRoom(n, "noteUpdated", ""),
                                    ToRoom(n, "noteShared", ""),
                                    Broadcast("notesListUpdated", "share"),
                                    ToUser(userToShareWith, "notification",
                                           "note_shared")>>
                             ELSE <<>>
                /\ last' = Ran("shareNoteTwice", u, n, userToShareWith, role, FALSE,
                               IF secondAllowed THEN "OK" ELSE "PermissionDenied",
                               IF afterSecond = afterFirst THEN "same"
                               ELSE "differs")

NextShareTwice ==
    \E u \in Users, n \in NoteIds, e \in Emails, r \in RequestRoles :
        ShareNoteTwice(u, n, e, r)

SpecShareTwice == InitRoundTrip /\ [][NextShareTwice]_vars

----------------------------------------------------------------------------
(* The update handlers step by step: each await (findById, save, the        *)
(* re-load) is a point where other handlers run and where the database      *)
(* call can fail.  The code between two awaits runs without interruption.   *)

\* the title and content of the in-memory document after the assignments
MemTitle(req) == IF req.title # Undefined THEN req.title ELSE req.doc.title
MemContent(req) == IF req.content # Undefined THEN req.content ELSE req.doc.content

\* mutant: save writes the whole in-memory title and content
SaveModified_wholeDocument(stored, req) ==
    [stored EXCEPT !.title = MemTitle(req),
                   !.content = MemContent(req),
                   !.updatedAt = now]

\* mutant: save writes only while the actor still has the write level
SaveModified_recheck(stored, req) ==
    IF ~checkPermissions(stored, req.actor, "write") THEN stored
    ELSE [stored EXCEPT
            !.title = IF MemTitle(req) # req.doc.title THEN MemTitle(req) ELSE @,
            !.content = IF MemContent(req) # req.doc.content
                        THEN MemContent(req) ELSE @,
            !.updatedAt = now]

\* note.save() of a document loaded earlier: the paths whose value differs
\* from the loaded one are written onto the stored document, the others are
\* left as stored; nothing is written when no path was modified
SaveModified(stored, req) ==
    LET titleModified == MemTitle(req) # req.doc.title
        contentModified == MemContent(req) # req.doc.content
    IN  IF ~titleModified /\ ~contentModified THEN stored
        ELSE [stored EXCEPT
                !.title = IF titleModified THEN MemTitle(req) ELSE @,
                !.content = IF contentModified THEN MemContent(req) ELSE @,
                !.updatedAt = now]

\* mutant: the catch block of updateNote publishes the list update
HttpCatch_publish(u, n) == <<ToRoom(n, "notesListUpdated", "update")>>

\* catch (err) { next(err) } of the HTTP handlers: nothing is emitted
HttpCatch(u, n) == <<>>

\* the catch block of the socket handler: socket.emit("noteUpdateError")
SocketCatch(u, n) == <<ToSocket(u, "noteUpdateError", "")>>

\* updateNote up to its first await after the load: findById, the 404 and
\* 403 replies, the assignments
UpdateNoteLoad(u, n, title, content, isAutoSave) ==
    LET note == notes[n]
        req == Loaded("updateNote", u, n, note, title, content, isAutoSave)
    IN  /\ reqs[u].pc \in {"idle", "done"}
        /\ UNCHANGED <<notes, allocated, now>>
        /\ events' = <<>>
        /\ IF ~note.exists
           THEN /\ reqs' = [reqs EXCEPT ![u] = Done(req, FALSE)]
                /\ last' = Ran("updateNote", u, n, NoUser, "", isAutoSave,
                               "NotFound", "load")
           ELSE IF ~checkPermissions(note, u, UpdateRequiredRole)
           THEN /\ reqs' = [reqs EXCEPT ![u] = Done(req, FALSE)]
                /\ last' = Ran("updateNote", u, n, NoUser, "", isAutoSave,
                               "PermissionDenied", "load")
           ELSE /\ reqs' = [reqs EXCEPT ![u] = req]
                /\ last' = Ran("updateNote", u, n, NoUser, "", isAutoSave,
                               "Pending", "load")

\* await note.save() of updateNote and the emits that follow it
UpdateNoteSave(u, ok) ==
    LET req == reqs[u]
        n == req.note
    IN  /\ req.pc = "loaded"
        /\ req.op = "updateNote"
        /\ UNCHANGED <<allocated, now>>
        /\ IF ~ok
           THEN /\ UNCHANGED notes
                /\ events' = HttpCatch(u, n)
                /\ reqs' = [reqs EXCEPT ![u] = Done(req, FALSE)]
                /\ last' = Ran("updateNote", u, n, NoUser, "", req.auto,
                               "InternalError", "save")
           ELSE /\ notes' = [notes EXCEPT ![n] = SaveModified(@, req)]
                /\ events' = <<ToRoom(n, "notesListUpdated", "update"),
                               ToUser(u, "noteUpdateSuccess", "")>>
                /\ reqs' = [reqs EXCEPT ![u] =
                              IF req.auto THEN Done(req, TRUE)
                              ELSE [req EXCEPT !.pc = "saved", !.persisted = TRUE]]
                /\ last' = Ran("updateNote", u, n, NoUser, "", req.auto,
                               IF req.auto THEN "OK" ELSE "Pending", "save")

\* the re-load of an explicit save and the notifications built from it
UpdateNoteReload(u, ok) ==
    LET req == reqs[u]
        n == req.note
    IN  /\ req.pc = "saved"
        /\ req.op = "updateNote"
        /\ UNCHANGED <<notes, allocated, now>>
        /\ reqs' = [reqs EXCEPT ![u] = Done(req, TRUE)]
        /\ IF ~ok
           THEN /\ events' = HttpCatch(u, n)
                /\ last' = Ran("updateNote", u, n, NoUser, "", req.auto,
                               "InternalError", "reload")
           ELSE /\ events' = IF notes[n].exists
                             THEN NotifyUpdatedByOther(
                                      CollaboratorsToNotify(notes[n], u))
                             ELSE <<>>
                /\ last' = Ran("updateNote", u, n, NoUser, "", req.auto,
                               "OK", "reload")

\* the socket handler up to its save: findById and the change detection
SocketLoad(editorId, n, title, content) ==
    LET note == notes[n]
        req == Loaded("userFinishedEditingNoteWithContent", editorId, n, note,
                      title, content, FALSE)
    IN  /\ reqs[editorId].pc \in {"idle", "done"}
        /\ UNCHANGED <<notes, allocated, now>>
        /\ events' = <<>>
        /\ IF ~note.exists
           THEN /\ reqs' = [reqs EXCEPT ![editorId] = Done(req, FALSE)]
                /\ last' = Ran("userFinishedEditingNoteWithContent", editorId, n,
                               NoUser, "", FALSE, "NotFound", "load")
           ELSE IF note.title # title \/ note.content # content
           THEN /\ reqs' = [reqs EXCEPT ![editorId] = req]
                /\ last' = Ran("userFinishedEditingNoteWithContent", editorId, n,
                               NoUser, "", FALSE, "Pending", "load")
           ELSE /\ reqs' = [reqs EXCEPT ![editorId] = Done(req, FALSE)]
                /\ last' = Ran("userFinishedEditingNoteWithContent", editorId, n,
                               NoUser, "", FALSE, "NoChange", "load")

\* await note.save() of the socket handler and the notifications, which are
\* built from the document as loaded
SocketSave(editorId, ok) ==
    LET req == reqs[editorId]
        n == req.note
    IN  /\ req.pc = "loaded"
        /\ req.op = "userFinishedEditingNoteWithContent"
        /\ UNCHANGED <<allocated, now>>
        /\ IF ~ok
           THEN /\ UNCHANGED notes
                /\ events' = SocketCatch(editorId, n)
                /\ reqs' = [reqs EXCEPT ![editorId] = Done(req, FALSE)]
                /\ last' = Ran("userFinishedEditingNoteWithContent", editorId, n,
                               NoUser, "", FALSE, "InternalError", "save")
           ELSE /\ notes' = [notes EXCEPT ![n] = SaveModified(@, req)]
                /\ events' = NotifyUpdatedByOther(
                                 CollaboratorsToNotify(req.doc, editorId))
                /\ reqs' = [reqs EXCEPT ![editorId] = Done(req, TRUE)]
                /\ last' = Ran("userFinishedEditingNoteWithContent", editorId, n,
                               NoUser, "", FALSE, "OK", "save")

\* shareNote run without interruption, with a database call that fails:
\* the save (nothing is stored, next(err)) or the re-load after it (the
\* share is stored, the reply is 500)
ShareNoteFailing(u, n, email, role, failing) ==
    LET note == notes[n]
        userToShareWith == findUserByEmail(email)
    IN  /\ note.exists
        /\ checkPermissions(Populate(note), u, ShareRequiredRole)
        /\ email # emailOf[u]
        /\ userToShareWith # NoUser
        /\ UNCHANGED <<allocated, now, reqs>>
        /\ events' = HttpCatch(u, n)
        /\ last' = Ran("shareNote", u, n, userToShareWith, role, FALSE,
                       "InternalError", failing)
        /\ IF failing = "save"
           THEN UNCHANGED notes
           ELSE notes' = [notes EXCEPT ![n] =
                            Save(note, [note EXCEPT !.sharedWith =
                                UpsertShare(@, userToShareWith, UserEmail(userToShareWith), role)])]

InFlightUsers == {"u1", "u2"}

\* bodies of PUT /:id and payloads of the socket event sent by the two writers
InFlightBodies ==
    {<<"Memo", Undefined>>, <<"Draft", Undefined>>, <<Undefined, "v2">>}
InFlightPayloads == {<<"Draft", "v1">>}

\* a note of u1 shared with u2 as writer
InitInFlight ==
    /\ now = 0
    /\ reqs = [u \in Users |-> Idle]
    /\ notes = [n \in NoteIds |->
                  [NewNote("Plan", "v1", "u1") EXCEPT !.sharedWith =
                      <<NewShare("u2", emailOf["u2"], "write")>>]]
    /\ allocated = NoteIds
    /\ events = <<>>
    /\ last = NoOp

NextInFlight ==
    \/ \E u \in InFlightUsers, n \in NoteIds, b \in InFlightBodies, a \in BOOLEAN :
          UpdateNoteLoad(u, n, b[1], b[2], a)
    \/ \E u \in InFlightUsers, ok \in BOOLEAN : UpdateNoteSave(u, ok)
    \/ \E u \in InFlightUsers, ok \in BOOLEAN : UpdateNoteReload(u, ok)
    \/ \E u \in InFlightUsers, n \in NoteIds, b \in InFlightPayloads :
          SocketLoad(u, n, b[1], b[2])
    \/ \E u \in InFlightUsers, ok \in BOOLEAN : SocketSave(u, ok)
    \/ \E n \in NoteIds, r \in RequestRoles : ShareNote("u1", n, emailOf["u2"], r)
    \/ \E n \in NoteIds : UnshareNote("u1", n, "u2")
    \/ \E n \in NoteIds, r \in RequestRoles, f \in {"save", "reload"} :
          ShareNoteFailing("u1", n, emailOf["u2"], r, f)

SpecInFlight == InitInFlight /\ [][NextInFlight]_vars

----------------------------------------------------------------------------
(* One note through its whole life: every handler that writes a stored      *)
(* note, the socket edit and the archive sweep, with the clock running.     *)

LifecycleUsers == {"u1", "u2"}
LifecycleInstants == {0, ARCHIVE_AFTER_DAYS + 1}

TickLifecycle ==
    /\ \E t \in LifecycleInstants : t > now /\ now' = t
    /\ UNCHANGED <<notes, allocated, events, last, reqs>>

NextLifecycle ==
    \/ TickLifecycle
    \/ ArchiveOldNotes
    \/ \E u \in LifecycleUsers, n \in NoteIds :
          UpdateNote(u, n, "Memo", Undefined, FALSE)
    \/ \E u \in LifecycleUsers, n \in NoteIds :
          UserFinishedEditingNoteWithContent(u, n, "Plan", "v2")
    \/ \E u \in LifecycleUsers, n \in NoteIds, r \in RequestRoles :
          ShareNote(u, n, emailOf["u3"], r)
    \/ \E u \in LifecycleUsers, n \in NoteIds, t \in {"u2", "u3"} :
          UnshareNote(u, n, t)
    \/ \E u \in LifecycleUsers, n \in NoteIds : ArchiveNote(u, n)
    \/ \E u \in LifecycleUsers, n \in NoteIds : UnarchiveNote(u, n)

SpecLifecycle == InitInFlight /\ [][NextLifecycle]_vars

----------------------------------------------------------------------------
(* Titles.  Two note ids and two creators; createNote both as one step and  *)
(* split at its await between the findOne and the create, so that two       *)
(* requests of the same user can overlap; each request runs in a session.   *)

TitleNoteIds == {"n1", "n2"}
TitleUsers == {"u1", "u2"}
Sessions == {"s1", "s2"}

\* createNote up to the await of Note.findOne: the 409 reply, or on to create
CreateNoteFind(s, u, title, content) ==
    LET req == Loaded("createNote", u, "", NoNote, title, content, FALSE)
    IN  /\ reqs[s].pc = "idle"
        /\ UNCHANGED <<notes, allocated, now>>
        /\ events' = <<>>
        /\ IF existingNote(title, u)
           THEN /\ UNCHANGED reqs
                /\ last' = Ran("createNote", u, "", NoUser, "", FALSE,
                               "Conflict", "find")
           ELSE /\ reqs' = [reqs EXCEPT ![s] = req]
                /\ last' = Ran("createNote", u, "", NoUser, "", FALSE,
                               "Pending", "find")

\* await Note.create(...), the emit and the 201 reply
CreateNoteInsert(s, n) ==
    LET req == reqs[s]
    IN  /\ req.pc = "loaded"
        /\ req.op = "createNote"
        /\ n \notin allocated
        /\ UNCHANGED now
        /\ notes' = [notes EXCEPT ![n] =
                        NewNote(trim(req.title), req.content, req.actor)]
        /\ allocated' = allocated \cup {n}
        /\ events' = <<Broadcast("notesListUpdated", "create")>>
        /\ reqs' = [reqs EXCEPT ![s] = Idle]
        /\ last' = Ran("createNote", req.actor, n, NoUser, "", FALSE,
                       "Created", "insert")

InitTitles ==
    /\ now = 0
    /\ reqs = [s \in Sessions |-> Idle]
    /\ notes = [n \in TitleNoteIds |-> NoNote]
    /\ allocated = {}
    /\ events = <<>>
    /\ last = NoOp

NextTitles ==
    \/ \E u \in TitleUsers, n \in TitleNoteIds, t \in RequestTitles :
          CreateNote(u, n, t, "v1")
    \/ \E s \in Sessions, t \in RequestTitles : CreateNoteFind(s, "u1", t, "v1")
    \/ \E s \in Sessions, n \in TitleNoteIds : CreateNoteInsert(s, n)
    \/ \E u \in TitleUsers, n \in TitleNoteIds, t \in RequestTitles :
          UpdateNote(u, n, t, Undefined, FALSE)
    \/ \E u \in TitleUsers, n \in TitleNoteIds : ArchiveNote(u, n)
    \/ \E u \in TitleUsers, n \in TitleNoteIds : UnarchiveNote(u, n)

SpecTitles == InitTitles /\ [][NextTitles]_vars

----------------------------------------------------------------------------
(* The HTTP handlers that load a note, assign to it and save it, split at   *)
(* the await of note.save(): the load step runs the handler up to the       *)
(* assignments, the commit step is save() and everything after it.          *)

\* a session with no request in flight
NoRequest ==
    [pc |-> "idle", op |-> "", actor |-> NoUser, note |-> "", doc |-> NoNote,
     mem |-> NoNote, target |-> NoUser]

\* a handler waiting for its save: the document as loaded and as assigned to
InFlight(op, actor, n, doc, mem, target) ==
    [pc |-> "loaded", op |-> op, actor |-> actor, note |-> n, doc |-> doc,
     mem |-> mem, target |-> target]

\* the update save() sends for sharedWith: nothing when the array was not
\* touched, $push of the entry appended, $set of the role of an entry
\* assigned in place, $set of the whole array after a splice or an assignment
SavedShares(stored, doc, mem) ==
    IF mem.sharedWith = doc.sharedWith THEN stored.sharedWith
    ELSE IF /\ Len(mem.sharedWith) = Len(doc.sharedWith) + 1
            /\ SubSeq(mem.sharedWith, 1, Len(doc.sharedWith)) = doc.sharedWith
         THEN Append(stored.sharedWith, mem.sharedWith[Len(mem.sharedWith)])
    ELSE IF Len(mem.sharedWith) = Len(doc.sharedWith)
         THEN [i \in DOMAIN stored.sharedWith |->
                  IF /\ i <= Len(mem.sharedWith)
                     /\ mem.sharedWith[i].role # doc.sharedWith[i].role
                  THEN [stored.sharedWith[i] EXCEPT !.role = mem.sharedWith[i].role]
                  ELSE stored.sharedWith[i]]
    ELSE mem.sharedWith

\* note.save() of a document loaded earlier, onto the document now stored:
\* only the modified paths are written, updatedAt with them
ApplyDelta(stored, doc, mem) ==
    IF mem = doc THEN stored
    ELSE [stored EXCEPT
            !.title = IF mem.title # doc.title THEN mem.title ELSE @,
            !.content = IF mem.content # doc.content THEN mem.content ELSE @,
            !.isArchived = IF mem.isArchived # doc.isArchived
                           THEN mem.isArchived ELSE @,
            !.sharedWith = SavedShares(stored, doc, mem),
            !.updatedAt = now]

\* mutant: the rejected request still announces a list update
Rejected_emits(s, op, u, n, target, status, info) ==
    /\ UNCHANGED <<notes, allocated, now, reqs>>
    /\ events' = <<Broadcast("notesListUpdated", op)>>
    /\ last' = Ran(op, u, n, target, "", FALSE, status, info)

\* a handler that replies before its save
Rejected(s, op, u, n, target, status, info) ==
    /\ UNCHANGED <<notes, allocated, now, reqs>>
    /\ events' = <<>>
    /\ last' = Ran(op, u, n, target, "", FALSE, status, info)

\* a handler that reaches its save
Awaiting(s, op, u, n, mem, target, role) ==
    /\ UNCHANGED <<notes, allocated, now>>
    /\ events' = <<>>
    /\ reqs' = [reqs EXCEPT ![s] = InFlight(op, u, n, notes[n], mem, target)]
    /\ last' = Ran(op, u, n, target, role, FALSE, "Pending", "load")

\* updateNote up to await note.save()
UpdateLoad(s, u, n, title) ==
    LET note == notes[n]
    IN  /\ reqs[s].pc = "idle"
        /\ IF ~note.exists
           THEN Rejected(s, "updateNote", u, n, NoUser, "NotFound", "load")
           ELSE IF ~checkPermissions(note, u, UpdateRequiredRole)
           THEN Rejected(s, "updateNote", u, n, NoUser, "PermissionDenied", "load")
           ELSE Awaiting(s, "updateNote", u, n,
                         [note EXCEPT !.title = trim(title)], NoUser, "")

\* shareNote up to await note.save()
ShareLoad(s, u, n, email, role) ==
    LET note == notes[n]
        userToShareWith == findUserByEmail(email)
    IN  /\ reqs[s].pc = "idle"
        /\ IF ~note.exists
           THEN Rejected(s, "shareNote", u, n, userToShareWith, "NotFound", "load")
           ELSE IF ~checkPermissions(Populate(note), u, ShareRequiredRole)
           THEN Rejected(s, "shareNote", u, n, userToShareWith,
                         "PermissionDenied", "load")
           ELSE IF email = emailOf[u]
           THEN Rejected(s, "shareNote", u, n, userToShareWith,
                         "InvalidState", "load")
           ELSE IF userToShareWith = NoUser
           THEN Rejected(s, "shareNote", u, n, userToShareWith, "NotFound", "load")
           ELSE Awaiting(s, "shareNote", u, n,
                         [note EXCEPT !.sharedWith =
                             UpsertShare(@, userToShareWith,
                                         UserEmail(userToShareWith), role)],
                         userToShareWith, role)

\* unshareNote up to await note.save()
UnshareLoad(s, u, n, userIdToUnshare) ==
    LET note == notes[n]
        shareIndex == FindShareIndex(note.sharedWith, userIdToUnshare)
    IN  /\ reqs[s].pc = "idle"
        /\ IF ~note.exists
           THEN Rejected(s, "unshareNote", u, n, userIdToUnshare, "NotFound", "load")
           ELSE IF ~CanUnshare(Populate(note), u, userIdToUnshare)
           THEN Rejected(s, "unshareNote", u, n, userIdToUnshare,
                         "PermissionDenied", "load")
           ELSE IF shareIndex = 0
           THEN Rejected(s, "unshareNote", u, n, userIdToUnshare, "NotFound", "load")
           ELSE Awaiting(s, "unshareNote", u, n,
                         [note EXCEPT !.sharedWith = RemoveAt(@, shareIndex)],
                         userIdToUnshare, "")

\* archiveNote up to await note.save()
ArchiveLoad(s, u, n) ==
    LET note == notes[n]
    IN  /\ reqs[s].pc = "idle"
        /\ IF ~note.exists
           THEN Rejected(s, "archiveNote", u, n, NoUser, "NotFound", "load")
           ELSE IF ~checkPermissions(Populate(note), u, ArchiveRequiredRole)
           THEN Rejected(s, "archiveNote", u, n, NoUser, "PermissionDenied", "load")
           ELSE IF AlreadyArchived(note)
           THEN Rejected(s, "archiveNote", u, n, NoUser, "InvalidState", "load")
           ELSE Awaiting(s, "archiveNote", u, n, archived(note, u), NoUser, "")

\* what a handler emits once its save has succeeded
EmittedAfterSave(req) ==
    IF req.op = "updateNote"
    THEN <<ToRoom(req.note, "notesListUpdated", "update"),
           ToUser(req.actor, "noteUpdateSuccess", "")>>
    ELSE IF req.op = "shareNote"
    THEN <<ToRoom(req.note, "noteUpdated", ""),
           ToRoom(req.note, "noteShared", ""),
           Broadcast("notesListUpdated", "share"),
           ToUser(req.target, "notification", "note_shared")>>
    ELSE IF req.op = "unshareNote"
    THEN <<ToRoom(req.note, "noteUpdated", ""),
           ToRoom(req.note, "noteUnshared", ""),
           Broadcast("notesListUpdated", "unshare"),
           ToUser(req.target, "notification", "note_unshared")>>
    ELSE <<ToRoom(req.note, "noteUpdated", ""),
           Broadcast("notesListUpdated", "archive")>>

\* mutant: a save that finds no stored document inserts the one in memory
SaveOf_upsert(stored, req) ==
    IF stored.exists THEN ApplyDelta(stored, req.doc, req.mem)
    ELSE [req.mem EXCEPT !.updatedAt = now]

\* await note.save(): the update is addressed to the document by _id; when
\* no document has that _id any more nothing is stored
SaveOf(stored, req) ==
    IF stored.exists THEN ApplyDelta(stored, req.doc, req.mem) ELSE stored

\* save() and the rest of the handler.  A save that matches no document
\* rejects with DocumentNotFoundError and the catch block calls next(err).
Commit(s) ==
    LET req == reqs[s]
        n == req.note
        saved == SaveOf(notes[n], req)
    IN  /\ req.pc = "loaded"
        /\ UNCHANGED <<allocated, now>>
        /\ reqs' = [reqs EXCEPT ![s] = NoRequest]
        /\ notes' = [notes EXCEPT ![n] = saved]
        /\ IF ~saved.exists
           THEN /\ events' = HttpCatch(req.actor, n)
                /\ last' = Ran(req.op, req.actor, n, req.target, "", FALSE,
                               "InternalError", "save")
           ELSE /\ events' = EmittedAfterSave(req)
                /\ last' = Ran(req.op, req.actor, n, req.target, "", FALSE,
                               "OK", "save")

\* two share requests in flight on one note of u1
InitShareRace ==
    /\ now = 0
    /\ reqs = [s \in Sessions |-> NoRequest]
    /\ notes \in [NoteIds -> {NewNote("Plan", "v1", "u1"),
                              [NewNote("Plan", "v1", "u1") EXCEPT !.sharedWith =
                                  <<NewShare("u2", emailOf["u2"], "write")>>]}]
    /\ allocated = NoteIds
    /\ events = <<>>
    /\ last = NoOp

NextShareRace ==
    \/ \E s \in Sessions, u \in {"u1", "u2"}, n \in NoteIds,
          e \in {emailOf["u2"], emailOf["u3"], UnknownEmail},
          r \in RequestRoles :
          ShareLoad(s, u, n, e, r)
    \/ \E s \in Sessions : Commit(s)

SpecShareRace == InitShareRace /\ [][NextShareRace]_vars

\* one request in flight on a note of u1, and the delete of that note
DeleteRaceSessions == {"s1"}

InitDeleteRace ==
    /\ now = 0
    /\ reqs = [s \in DeleteRaceSessions |-> NoRequest]
    /\ notes = [n \in NoteIds |->
                  [NewNote("Plan", "v1", "u1") EXCEPT !.sharedWith =
                      <<NewShare("u2", emailOf["u2"], "write")>>]]
    /\ allocated = NoteIds
    /\ events = <<>>
    /\ last = NoOp

NextDeleteRace ==
    \/ \E s \in DeleteRaceSessions, u \in {"u1", "u2"}, n \in NoteIds,
          t \in Titles :
          UpdateLoad(s, u, n, t)
    \/ \E s \in DeleteRaceSessions, u \in {"u1", "u2"}, n \in NoteIds,
          e \in {emailOf["u2"], emailOf["u3"]}, r \in RequestRoles :
          ShareLoad(s, u, n, e, r)
    \/ \E s \in DeleteRaceSessions, u \in {"u1", "u2"}, n \in NoteIds,
          t \in {"u2", "u3"} :
          UnshareLoad(s, u, n, t)
    \/ \E s \in DeleteRaceSessions, u \in {"u1", "u2"}, n \in NoteIds :
          ArchiveLoad(s, u, n)
    \/ \E s \in DeleteRaceSessions : Commit(s)
    \/ \E u \in {"u1", "u2"}, n \in NoteIds : DeleteNote(u, n)
    \/ \E u \in {"u1", "u2"}, n \in NoteIds : UnarchiveNote(u, n)

SpecDeleteRace == InitDeleteRace /\ [][NextDeleteRace]_vars

----------------------------------------------------------------------------
(* Vocabulary of the properties *)

\* the roles of the share entries naming user u
RolesOf(note, u) ==
    {note.sharedWith[i].role : i \in {j \in 1..Len(note.sharedWith) :
                                        note.sharedWith[j].userId = u}}

IsCreator(note, u) == note.creator # NoUser /\ note.creator = u

\* write level or above: the creator, or a sharee whose role is write or owner
HasWriteLevel(note, u) ==
    \/ IsCreator(note, u)
    \/ RolesOf(note, u) \cap {"write", "owner"} # {}

\* the note the last handler run addressed, before and after a step
Was(l) == notes[l.note]

\* events that confirm the actor's own action to the actor
FirstPersonEvents == {"noteUpdateSuccess"}

\* the creator and the users of the share list
Collaborators(note) ==
    (IF note.creator # NoUser THEN {note.creator} ELSE {})
        \cup {note.sharedWith[i].userId : i \in 1..Len(note.sharedWith)}

\* how many of the events evs are the event `name` on the channel of user u
CountTo(evs, u, name) ==
    Cardinality({i \in 1..Len(evs) :
                    /\ evs[i].chan = "user"
                    /\ evs[i].to = u
                    /\ evs[i].name = name})

UpdateOps == {"updateNote", "userFinishedEditingNoteWithContent"}

\* this step is the save of an in-flight update and the save succeeded
SaveSucceeds ==
    /\ last'.op \in UpdateOps
    /\ last'.info = "save"
    /\ last'.status \in {"OK", "Pending"}

\* the only event is the error reply to the socket the request came from
OnlyErrorReply(evs, u) ==
    \A i \in 1..Len(evs) :
        /\ evs[i].chan = "socket"
        /\ evs[i].to = u
        /\ evs[i].name = "noteUpdateError"

\* the step left the title and the content of the addressed note as stored
SameText(before, after) ==
    /\ after.title = before.title
    /\ after.content = before.content

----------------------------------------------------------------------------
(* Properties *)

\* C1: on both update entry points (HTTP updateNote and the socket event
\* userFinishedEditingNoteWithContent) an update by a user without write level
\* (read share only, or no share and not the creator) is rejected with
\* PermissionDenied, leaves the stored note unchanged and emits no event.
C1_UpdateWithoutWriteRejected ==
    [][ ( /\ last'.op \in {"updateNote", "userFinishedEditingNoteWithContent"}
          /\ Was(last').exists
          /\ ~HasWriteLevel(Was(last'), last'.actor) )
        => ( /\ last'.status = "PermissionDenied"
             /\ notes' = notes
             /\ events' = <<>> ) ]_vars

\* C2: a delete by anyone but the note's creator, a write sharee included, is
\* rejected with PermissionDenied, the note still exists and no event is emitted.
C2_DeleteCreatorOnly ==
    [][ ( /\ last'.op = "deleteNote"
          /\ Was(last').exists
          /\ ~IsCreator(Was(last'), last'.actor) )
        => ( /\ last'.status = "PermissionDenied"
             /\ notes' = notes
             /\ notes'[last'.note].exists
             /\ events' = <<>> ) ]_vars

C2_Witness ==
    /\ last.op = "deleteNote"
    /\ last.status = "PermissionDenied"
    /\ notes[last.note].exists
    /\ "write" \in RolesOf(notes[last.note], last.actor)

\* C3: the creator of a note never appears as a userId in its share list.
C3_CreatorNeverShared ==
    \A n \in NoteIds :
        notes[n].exists => RolesOf(notes[n], notes[n].creator) = {}

\* C4: with every operation run to completion, every note's share list holds
\* at most one entry per user.
C4_OneSharePerUser ==
    \A n \in NoteIds : \A i, j \in 1..Len(notes[n].sharedWith) :
        notes[n].sharedWith[i].userId = notes[n].sharedWith[j].userId => i = j

C4_Witness ==
    /\ last.op = "shareNote"
    /\ last.status = "OK"
    /\ last.info = "roleUpdated"
    /\ Len(notes[last.note].sharedWith) >= 2

C6_RoleChangeCreatorOnly ==
    [][ ( /\ last'.op = "shareNote"
          /\ Was(last').exists
          /\ RolesOf(Was(last'), last'.target) # {}
          /\ last'.role \notin RolesOf(Was(last'), last'.target)
          /\ ~IsCreator(Was(last'), last'.actor) )
        => ( /\ last'.status # "OK"
             /\ notes'[last'.note].sharedWith = Was(last').sharedWith ) ]_vars

\* C6 (amended): re-sharing with an already shared user at a different role
\* is rejected with PermissionDenied, and the role kept, unless the actor has
\* write level or above (the creator, or a sharee with role write or owner).
C6_RoleChangeWriteLevelOnly ==
    [][ ( /\ last'.op = "shareNote"
          /\ Was(last').exists
          /\ RolesOf(Was(last'), last'.target) # {}
          /\ last'.role \notin RolesOf(Was(last'), last'.target)
          /\ ~HasWriteLevel(Was(last'), last'.actor) )
        => ( /\ last'.status = "PermissionDenied"
             /\ RolesOf(notes'[last'.note], last'.target)
                  = RolesOf(Was(last'), last'.target) ) ]_vars

C6_Witness ==
    /\ last.op = "shareNote"
    /\ last.status = "PermissionDenied"
    /\ RolesOf(notes[last.note], last.actor) = {"read"}
    /\ RolesOf(notes[last.note], last.target) # {}
    /\ last.role \notin RolesOf(notes[last.note], last.target)

\* C7: a share request is accepted only from an actor with write level or
\* above; from an actor with a read share or none it is rejected with
\* PermissionDenied and the share list is unchanged.
C7_ShareNeedsWriteLevel ==
    [][ ( /\ last'.op = "shareNote"
          /\ Was(last').exists )
        => ( /\ last'.status = "OK" => HasWriteLevel(Was(last'), last'.actor)
             /\ ~HasWriteLevel(Was(last'), last'.actor)
                  => ( /\ last'.status = "PermissionDenied"
                       /\ notes'[last'.note].sharedWith = Was(last').sharedWith ) )
      ]_vars

C7_Witness ==
    /\ last.op = "shareNote"
    /\ last.status = "PermissionDenied"
    /\ RolesOf(notes[last.note], last.actor) = {"read"}
    /\ last.target \in Users
    /\ last.target # last.actor

\* C8: for a non-creator user whose share entries carry role write or owner
\* the permission check grants the read and the write level and denies the
\* owner level: a share role named owner is never true ownership.
C8_WriteShareIsNotOwnership ==
    \A n \in NoteIds : \A u \in Users :
        ( /\ notes[n].exists
          /\ getUserIdStringFromField(notes[n].creator) # NoUser
          /\ ~IsCreator(notes[n], u)
          /\ RolesOf(notes[n], u) # {}
          /\ RolesOf(notes[n], u) \subseteq {"write", "owner"} )
        => ( /\ checkPermissions(notes[n], u, "read")
             /\ checkPermissions(notes[n], u, "write")
             /\ ~checkPermissions(notes[n], u, "owner") )

C8_Witness ==
    /\ last.op = "deleteNote"
    /\ last.status = "PermissionDenied"
    /\ notes[last.note].exists
    /\ RolesOf(notes[last.note], last.actor) = {"owner"}

\* C9: for a note with a resolvable creator the permission check grants the
\* creator every level (read, write, owner) whatever the share list holds,
\* an empty list or an entry naming the creator with a lower role included.
C9_CreatorAlwaysOwner ==
    \A n \in NoteIds :
        ( /\ notes[n].exists
          /\ getUserIdStringFromField(notes[n].creator) # NoUser )
        => \A r \in {"read", "write", "owner"} :
              checkPermissions(notes[n], notes[n].creator, r)

C9_Witness ==
    /\ last.op = "updateNote"
    /\ last.status = "OK"
    /\ IsCreator(notes[last.note], last.actor)
    /\ RolesOf(notes[last.note], last.actor) = {"read"}

\* C10: whatever the mutation, no event addressed to a user's channel other
\* than a first-person confirmation is addressed to the acting user.
C10_ActorNeverNotified ==
    \A i \in 1..Len(events) :
        (events[i].chan = "user" /\ events[i].to = last.actor)
            => events[i].name \in FirstPersonEvents

C12_NoOpUpdateIsSilent ==
    [][ ( /\ last'.op \in UpdateOps
          /\ Was(last').exists
          /\ last'.status # "PermissionDenied"
          /\ SameText(Was(last'), notes'[last'.note]) )
        => ( /\ notes' = notes
             /\ events' = <<>> ) ]_vars

\* C13: an autosave that changes title or content is persisted and every
\* event it emits is addressed to the acting user's own channel: none goes
\* to another user's channel, to the note room or to everyone.
C13_AutoSaveNotifiesActorOnly ==
    [][ ( /\ last'.op = "updateNote"
          /\ last'.auto
          /\ last'.status = "OK"
          /\ ~SameText(Was(last'), notes'[last'.note]) )
        => \A i \in 1..Len(events') :
              /\ events'[i].chan = "user"
              /\ events'[i].to = last'.actor ]_vars

\* C14: a successful share sends the target user exactly one recipient-facing
\* event: the new-grant event (note_shared) when the target had no share
\* entry, the role-changed event when the target already had one; a re-share
\* at a new role never sends the new-grant event.
C14_GrantOrRoleChanged ==
    [][ ( /\ last'.op = "shareNote"
          /\ last'.status = "OK" )
        => LET toTarget == {i \in 1..Len(events') :
                               /\ events'[i].chan = "user"
                               /\ events'[i].to = last'.target}
               hadEntry == RolesOf(Was(last'), last'.target) # {}
           IN  /\ Cardinality(toTarget) = 1
               /\ \A i \in toTarget :
                     events'[i].tag = IF hadEntry THEN "note_role_changed"
                                      ELSE "note_shared" ]_vars

\* C15: while a note is archived neither update entry point changes its title
\* or content: the attempt is rejected as InvalidState.
C15_ArchivedNoteNotEdited ==
    [][ ( /\ last'.op \in UpdateOps
          /\ Was(last').exists
          /\ Was(last').isArchived
          /\ HasWriteLevel(Was(last'), last'.actor) )
        => ( /\ last'.status = "InvalidState"
             /\ SameText(Was(last'), notes'[last'.note]) ) ]_vars

\* C16: in every state, every note has archivedAt set exactly when isArchived
\* is true, whatever manual archives, manual unarchives and sweeps have run.
C16_ArchivedAtIffArchived ==
    \A n \in DOMAIN notes :
        notes[n].exists => (notes[n].archivedAt # NoDate <=> notes[n].isArchived)

\* C17: a manual archive of a non-archived note immediately followed by a
\* manual unarchive by the same permitted actor (the creator included) leaves
\* isArchived false and archivedAt unset, and title, content, creator and
\* the share list as they were before the archive.
C17_ArchiveUnarchiveRoundTrip ==
    [][ ( /\ last'.op = "archiveThenUnarchive"
          /\ last'.status = "OK" )
        => ( /\ ~notes'[last'.note].isArchived
             /\ notes'[last'.note].archivedAt = NoDate
             /\ notes'[last'.note].title = Was(last').title
             /\ notes'[last'.note].content = Was(last').content
             /\ notes'[last'.note].creator = Was(last').creator
             /\ notes'[last'.note].sharedWith = Was(last').sharedWith ) ]_vars

\* C18: one run of the sweep sets isArchived and archivedAt = now on exactly
\* the notes that were not archived and were last updated earlier than now
\* minus the retention window, whoever created or shares them, and leaves
\* every other note as it was.
C18_SweepArchivesExactlyStaleNotes ==
    [][ ( /\ last'.op = "archiveOldNotes"
          /\ now' = now )
        => \A n \in DOMAIN notes :
              IF /\ notes[n].exists
                 /\ ~notes[n].isArchived
                 /\ notes[n].updatedAt < now - ARCHIVE_AFTER_DAYS
              THEN /\ notes'[n].isArchived
                   /\ notes'[n].archivedAt = now
                   /\ notes'[n].title = notes[n].title
                   /\ notes'[n].content = notes[n].content
                   /\ notes'[n].creator = notes[n].creator
                   /\ notes'[n].sharedWith = notes[n].sharedWith
              ELSE notes'[n] = notes[n] ]_vars

C18_Witness ==
    /\ last.op = "archiveOldNotes"
    /\ \E n, m \in DOMAIN notes :
          /\ notes[n].isArchived
          /\ notes[n].archivedAt = now
          /\ notes[n].sharedWith # <<>>
          /\ ~notes[m].isArchived
          /\ notes[m].updatedAt = now - ARCHIVE_AFTER_DAYS

\* C19: the sweep is idempotent per note: a sweep leaves a stale note
\* archived and no longer matching its filter, and a sweep that finds a note
\* archived leaves that note, archivedAt included, exactly as it was.
C19_SweepIdempotent ==
    [][ ( /\ last'.op = "archiveOldNotes"
          /\ now' = now )
        => \A n \in DOMAIN notes :
              /\ notes'[n].exists
                    => ~(~notes'[n].isArchived
                            /\ notes'[n].updatedAt < now' - ARCHIVE_AFTER_DAYS)
              /\ notes[n].isArchived => notes'[n] = notes[n] ]_vars

C19_Witness ==
    /\ last.op = "archiveOldNotes"
    /\ \E n \in DOMAIN notes :
          /\ notes[n].isArchived
          /\ notes[n].archivedAt # NoDate
          /\ notes[n].archivedAt < now
          /\ notes[n].updatedAt < now - ARCHIVE_AFTER_DAYS

\* C20: a manual archive or unarchive succeeds only for an actor with write
\* level or above (the creator, or a sharee with role write or owner); from
\* an actor with a read share or none it is rejected with PermissionDenied
\* and isArchived is unchanged.
C20_ArchiveNeedsWriteLevel ==
    [][ ( /\ last'.op \in {"archiveNote", "unarchiveNote"}
          /\ Was(last').exists )
        => ( /\ last'.status = "OK" => HasWriteLevel(Was(last'), last'.actor)
             /\ ~HasWriteLevel(Was(last'), last'.actor)
                  => ( /\ last'.status = "PermissionDenied"
                       /\ notes'[last'.note].isArchived = Was(last').isArchived ) )
      ]_vars

C20_Witness ==
    /\ last.op = "unarchiveNote"
    /\ last.status = "PermissionDenied"
    /\ notes[last.note].isArchived
    /\ RolesOf(notes[last.note], last.actor) = {"read"}

C22_FailureAfterSaveNotEscalated ==
    [][ ( /\ last'.op \in {"updateNote", "shareNote"}
          /\ last'.info = "reload" )
        => last'.status = "OK" ]_vars

\* C23 (as claimed): when an update saves after another writer's overlapping
\* update has saved, the stored title and content become the ones of the
\* later writer's document, whatever the earlier save wrote.
C23_LastSaveWinsWholeNote ==
    [][ ( /\ SaveSucceeds
          /\ ~SameText(reqs[last'.actor].doc, Was(last')) )
        => ( /\ notes'[last'.note].title = MemTitle(reqs[last'.actor])
             /\ notes'[last'.note].content = MemContent(reqs[last'.actor]) )
      ]_vars

\* C23 (amended): when an update saves after another writer's overlapping
\* update has saved, each of title and content that the later update changed
\* takes the later update's value (the earlier value is lost), and each one
\* it did not change keeps the value stored by the earlier save.
C23_LastSaveWinsPerField ==
    [][ ( /\ SaveSucceeds
          /\ ~SameText(reqs[last'.actor].doc, Was(last')) )
        => LET req == reqs[last'.actor]
           IN  /\ notes'[last'.note].title =
                     IF MemTitle(req) # req.doc.title THEN MemTitle(req)
                     ELSE Was(last').title
               /\ notes'[last'.note].content =
                     IF MemContent(req) # req.doc.content THEN MemContent(req)
                     ELSE Was(last').content
               /\ reqs'[last'.actor].persisted ]_vars

C23_Witness ==
    /\ last.op = "updateNote"
    /\ last.actor = "u2"
    /\ last.info = "save"
    /\ reqs["u1"].pc = "saved"
    /\ reqs["u2"].pc = "saved"
    /\ reqs["u1"].doc = reqs["u2"].doc
    /\ reqs["u1"].title = "Memo"
    /\ reqs["u2"].title = "Draft"
    /\ notes[last.note].title = "Draft"

\* C24: permission is evaluated on the note as loaded: an updateNote whose
\* actor no longer has the write level when the save runs (the share was
\* downgraded or removed after the load) is still persisted and succeeds.
C24_PermissionCheckedAtLoad ==
    [][ ( /\ SaveSucceeds
          /\ last'.op = "updateNote"
          /\ ~HasWriteLevel(Was(last'), last'.actor) )
        => LET req == reqs[last'.actor]
           IN  /\ notes'[last'.note].title =
                     IF MemTitle(req) # req.doc.title THEN MemTitle(req)
                     ELSE Was(last').title
               /\ notes'[last'.note].content =
                     IF MemContent(req) # req.doc.content THEN MemContent(req)
                     ELSE Was(last').content
               /\ reqs'[last'.actor].persisted ]_vars

C24_Witness ==
    /\ last.op = "updateNote"
    /\ last.info = "save"
    /\ last.status = "OK"
    /\ reqs[last.actor].persisted
    /\ ~IsCreator(notes[last.note], last.actor)
    /\ RolesOf(notes[last.note], last.actor) \subseteq {"read"}
    /\ notes[last.note].title = "Draft"

\* C25: the same share (same target, same role) made twice in succession
\* leaves the share list as the first call left it, with exactly one entry
\* for the target, carrying that role.
C25_ShareIdempotentOnRole ==
    [][ ( /\ last'.op = "shareNoteTwice"
          /\ last'.info \in {"same", "differs"} )
        => ( /\ last'.info = "same"
             /\ Cardinality({i \in 1..Len(notes'[last'.note].sharedWith) :
                    notes'[last'.note].sharedWith[i].userId = last'.target}) = 1
             /\ RolesOf(notes'[last'.note], last'.target) = {last'.role}
             /\ \A i \in 1..Len(Was(last').sharedWith) :
                    Was(last').sharedWith[i].userId # last'.target
                        => notes'[last'.note].sharedWith[i]
                              = Was(last').sharedWith[i] ) ]_vars

C25_Witness ==
    /\ last.op = "shareNoteTwice"
    /\ last.status = "OK"
    /\ Len(notes[last.note].sharedWith) = 2
    /\ notes[last.note].sharedWith[1].userId = last.target
    /\ notes[last.note].sharedWith[1].role = last.role

\* C26: an unshare by the creator or by the target themself whose target has
\* no share entry fails as not shared, writes nothing and emits nothing; when
\* the target has an entry, that entry is removed and every other entry kept,
\* in order.
C26_UnshareRemovesExactlyTarget ==
    [][ ( /\ last'.op = "unshareNote"
          /\ Was(last').exists
          /\ \/ IsCreator(Was(last'), last'.actor)
             \/ last'.target = last'.actor )
        => IF RolesOf(Was(last'), last'.target) = {}
           THEN /\ last'.status = "NotFound"
                /\ last'.info = "share"
                /\ notes' = notes
                /\ events' = <<>>
           ELSE /\ last'.status = "OK"
                /\ notes'[last'.note].sharedWith
                     = SelectSeq(Was(last').sharedWith,
                                 LAMBDA sh : sh.userId # last'.target) ]_vars

C26_Witness ==
    /\ last.op = "unshareNote"
    /\ last.status = "NotFound"
    /\ last.info = "share"
    /\ IsCreator(notes[last.note], last.actor)
    /\ Len(notes[last.note].sharedWith) = 2
    /\ events = <<>>

\* C27: when the creator reference of a note resolves to no user id, the
\* permission check denies every user at every level, a sharee with a valid
\* entry included, and the handlers that read the populated note refuse.
C27_UnresolvedCreatorDeniesAll ==
    \A n \in NoteIds :
        ( /\ notes[n].exists
          /\ getUserIdStringFromField(Populate(notes[n]).creator) = NoUser )
        => /\ \A u \in Users, r \in {"read", "write", "owner"} :
                 ~checkPermissions(Populate(notes[n]), u, r)
           /\ ( last.note = n /\ last.op \in {"getNoteById", "deleteNote"} )
                 => last.status = "PermissionDenied"

C27_Witness ==
    /\ last.op = "getNoteById"
    /\ last.status = "PermissionDenied"
    /\ getUserIdStringFromField(Populate(notes[last.note]).creator) = NoUser
    /\ "write" \in RolesOf(notes[last.note], last.actor)

ListingOps == {"getMyNotes", "getSharedWithMeNotes", "getAllUserNotes"}

\* C28: each of the three listings returns only unarchived notes of which the
\* caller is the creator or a sharee; an archived note is in no listing of any
\* user and is returned only by the archived view.
C28_ListingsOwnOrSharedAndUnarchived ==
    /\ last.op \in ListingOps
          => \A n \in last.info :
                /\ notes[n].exists
                /\ ~notes[n].isArchived
                /\ \/ IsCreator(notes[n], last.actor)
                   \/ RolesOf(notes[n], last.actor) # {}
    /\ last.op = "getArchivedNotes"
          => \A n \in last.info : notes[n].isArchived
    /\ \A n \in DOMAIN notes, u \in Users :
          notes[n].isArchived
              => n \notin getMyNotes(u) \cup getSharedWithMeNotes(u)
                            \cup getAllUserNotes(u)

C28_Witness ==
    /\ last.op = "getAllUserNotes"
    /\ last.info # {}
    /\ \E n \in DOMAIN notes :
          /\ notes[n].isArchived
          /\ RolesOf(notes[n], last.actor) # {}
          /\ n \notin last.info

\* C29: the creator of a note is fixed at creation: no update, share,
\* unshare, archive, unarchive or sweep changes it.
C29_CreatorNeverChanges ==
    [][ \A n \in DOMAIN notes :
          ( notes[n].exists /\ notes'[n].exists )
              => notes'[n].creator = notes[n].creator ]_vars

C29_Witness ==
    /\ last.op = "archiveOldNotes"
    /\ notes["n1"].isArchived
    /\ notes["n1"].archivedAt = now
    /\ notes["n1"].title = "Memo"
    /\ notes["n1"].content = "v2"
    /\ RolesOf(notes["n1"], "u3") # {}
    /\ RolesOf(notes["n1"], "u2") = {}
    /\ notes["n1"].creator = "u1"

\* C30: a share request whose target is the acting user is rejected as invalid
\* before any write: the share list is unchanged and nothing is emitted.
C30_SelfShareRejected ==
    [][ ( /\ last'.op = "shareNote"
          /\ Was(last').exists
          /\ HasWriteLevel(Was(last'), last'.actor)
          /\ last'.target = last'.actor )
        => ( /\ last'.status = "InvalidState"
             /\ notes' = notes
             /\ events' = <<>> ) ]_vars

\* C31: an unshare gets past the permission check exactly when the actor is
\* the creator of the note or the user being removed; any other actor, a
\* sharee with the write role included, is rejected with PermissionDenied,
\* and the rejected request writes nothing and emits nothing.
C31_UnshareOnlyCreatorOrSelf ==
    [][ ( /\ last'.op = "unshareNote"
          /\ Was(last').exists )
        => ( /\ ( last'.status # "PermissionDenied" )
                  <=> ( \/ IsCreator(Was(last'), last'.actor)
                        \/ last'.target = last'.actor )
             /\ last'.status = "PermissionDenied"
                  => ( notes' = notes /\ events' = <<>> )
             /\ ( notes'[last'.note].sharedWith # Was(last').sharedWith
                  /\ last'.target # last'.actor )
                  => IsCreator(Was(last'), last'.actor) ) ]_vars

C31_Witness ==
    /\ last.op = "unshareNote"
    /\ last.status = "PermissionDenied"
    /\ events = <<>>
    /\ RolesOf(notes[last.note], last.actor) = {"write"}
    /\ RolesOf(notes[last.note], last.target) = {"read"}
    /\ last.target # last.actor

\* C32: a manual archive by the creator of the note stores isArchived = TRUE
\* and an empty share list in one write; a manual archive by a non-creator
\* with write access stores isArchived = TRUE and leaves the share list as it
\* was.
C32_CreatorArchiveClearsShares ==
    [][ ( /\ last'.op = "archiveNote"
          /\ last'.status = "OK" )
        => ( /\ notes'[last'.note].isArchived
             /\ ~Was(last').isArchived
             /\ IF IsCreator(Was(last'), last'.actor)
                THEN notes'[last'.note].sharedWith = <<>>
                ELSE notes'[last'.note].sharedWith = Was(last').sharedWith ) ]_vars

C32_Witness ==
    /\ last.op = "archiveNote"
    /\ last.status = "OK"
    /\ notes[last.note].isArchived
    /\ ~IsCreator(notes[last.note], last.actor)
    /\ Len(notes[last.note].sharedWith) = 2

\* C33: a create request is answered with Conflict exactly when the creator
\* already has a non-archived note whose title is the requested one; the
\* rejected request stores nothing and emits nothing.  A title carried only
\* by an archived note of that creator, or by a note of another creator, is
\* accepted and the note is created.
C33_DuplicateActiveTitleConflict ==
    [][ ( /\ last'.op = "createNote"
          /\ last'.info \in RequestTitles )
        => LET taken == \E m \in DOMAIN notes :
                            /\ notes[m].exists
                            /\ ~notes[m].isArchived
                            /\ notes[m].creator = last'.actor
                            /\ notes[m].title = trim(last'.info)
           IN  IF taken
               THEN /\ last'.status = "Conflict"
                    /\ notes' = notes
                    /\ events' = <<>>
               ELSE /\ last'.status = "Created"
                    /\ ~notes[last'.note].exists
                    /\ notes'[last'.note].exists
                    /\ notes'[last'.note].creator = last'.actor
                    /\ notes'[last'.note].title = trim(last'.info) ]_vars

C33_Witness ==
    /\ last.op = "createNote"
    /\ last.info \in RequestTitles
    /\ last.status = "Created"
    /\ \E m \in DOMAIN notes :
          /\ m # last.note
          /\ notes[m].exists
          /\ notes[m].isArchived
          /\ notes[m].creator = last.actor
          /\ notes[m].title = notes[last.note].title

\* C34: a manual archive of an archived note and a manual unarchive of a note
\* that is not archived, by an actor the permission check lets through, are
\* rejected as InvalidState: every stored note is as it was (a creator's
\* rejected archive does not clear the share list) and nothing is emitted.
C34_WrongArchiveStateRejected ==
    [][ ( /\ last'.op \in {"archiveNote", "unarchiveNote"}
          /\ Was(last').exists
          /\ HasWriteLevel(Was(last'), last'.actor)
          /\ Was(last').isArchived = ( last'.op = "archiveNote" ) )
        => ( /\ last'.status = "InvalidState"
             /\ notes' = notes
             /\ events' = <<>> ) ]_vars

C34_Witness ==
    /\ last.op = "archiveNote"
    /\ last.status = "InvalidState"
    /\ IsCreator(notes[last.note], last.actor)
    /\ notes[last.note].isArchived
    /\ notes[last.note].sharedWith # <<>>
    /\ events = <<>>

\* C35: when two share requests for the same target user overlap on a note,
\* the stored share list has at most one entry for that user once both have
\* completed.
C35_OneEntryAfterOverlappingShares ==
    \A n \in NoteIds, u \in Users :
        ( \A s \in Sessions : reqs[s].pc = "idle" )
            => Cardinality({i \in 1..Len(notes[n].sharedWith) :
                               notes[n].sharedWith[i].userId = u}) <= 1

\* C36: access follows the stored share list: while the list holds no entry
\* for a user who is not the creator (as after an unshare of that user and
\* before a later share), every read by id and every update that user makes,
\* over HTTP or over the socket, is rejected with PermissionDenied.
C36_NoEntryNoAccess ==
    [][ ( /\ last'.op \in {"getNoteById"} \cup UpdateOps
          /\ Was(last').exists
          /\ ~IsCreator(Was(last'), last'.actor)
          /\ RolesOf(Was(last'), last'.actor) = {} )
        => ( /\ last'.status = "PermissionDenied"
             /\ notes' = notes ) ]_vars

\* C37: in every reachable state no creator has two non-archived notes with
\* the same title, title updates, unarchiving and overlapping create
\* requests of one user included.
C37_UniqueActiveTitlePerCreator ==
    \A m1, m2 \in DOMAIN notes :
        ( /\ m1 # m2
          /\ notes[m1].exists /\ notes[m2].exists
          /\ ~notes[m1].isArchived /\ ~notes[m2].isArchived
          /\ notes[m1].creator = notes[m2].creator )
        => notes[m1].title # notes[m2].title

\* C38: a deleted note stays absent: an update, share, unshare or archive
\* that loaded the note before the delete and saves after it stores nothing,
\* does not report success and emits nothing.
C38_SaveAfterDeleteDoesNotRecreate ==
    [][ /\ \A n \in NoteIds :
              ( n \in allocated /\ ~notes[n].exists ) => ~notes'[n].exists
        /\ ( /\ last'.op \in {"updateNote", "shareNote", "unshareNote", "archiveNote"}
             /\ last'.info = "save"
             /\ \E s \in DOMAIN reqs : reqs[s].pc = "loaded" /\ reqs'[s].pc = "idle"
             /\ ~notes[last'.note].exists )
            => ( /\ last'.status = "InternalError"
                 /\ events' = <<>> ) ]_vars

C38_Witness ==
    /\ last.op = "shareNote"
    /\ last.info = "save"
    /\ last.status = "InternalError"
    /\ ~notes[last.note].exists
    /\ last.note \in allocated
    /\ events = <<>>

HttpMutations ==
    {"updateNote", "deleteNote", "shareNote", "unshareNote", "archiveNote",
     "unarchiveNote"}

\* C39: an HTTP update, delete, share, unshare, archive or unarchive that
\* ends in NotFound, PermissionDenied or InvalidState leaves every stored
\* note as it was and emits no event on any channel.
C39_RejectedRequestHasNoEffect ==
    [][ ( /\ last'.op \in HttpMutations
          /\ last'.status \in {"NotFound", "PermissionDenied", "InvalidState"} )
        => ( /\ notes' = notes
             /\ events' = <<>> ) ]_vars

C39_Witness ==
    /\ last.op = "shareNote"
    /\ last.status = "InvalidState"
    /\ last.target = last.actor
    /\ notes[last.note].exists
    /\ RolesOf(notes[last.note], last.actor) = {"write"}
    /\ events = <<>>

====
